---- MODULE Spec2Model ----
(***************************************************************************)
(* Region-based attack on a random forest (rf_attack.py).                  *)
(*                                                                         *)
(* Numbers.  Feature values, thresholds and bounds are integers on a grid  *)
(* whose unit is CONSTRAINTTOL.  Every grid value is exactly representable *)
(* in float32, so the astype(np.float32) casts of the source leave the     *)
(* modelled values unchanged.  np.inf is the sentinel Inf, larger than any *)
(* finite value a run can compute.  Sequences are 1-based: feature f of    *)
(* the source is feature f+1 here, node id k is node k+1, and "no child"   *)
(* (-1 in scikit-learn) is 0.                                              *)
(***************************************************************************)
EXTENDS Integers, Sequences, FiniteSets, TLC

VARIABLES
    clf,            \* self.clf: [n_features, estimators_]
    trnX,           \* self.trnX
    queries,        \* the points perturb may be asked about
    method,         \* self.method
    norm,           \* self.norm: "2" or "inf"
    n_searches,     \* self.n_searches
    phase,          \* position of the program
    ci,             \* exact mode: index of the next (res, pro) combination
    regions,        \* self.regions
    region_preds,   \* self.region_preds
    region_res,     \* history: the (res, pro) combination each region came from
    vacuan_regions, \* vacuan_regions
    last,           \* history: what happened to the last combination
    X, y,           \* arguments of perturb
    pert_X,         \* pert_X / pert_xs
    sid,            \* index of the sample perturb is working on
    ind,            \* indices of the candidate regions of the current sample
    k,              \* position of the loop of rev_get_sol_*
    cands,          \* candidates
    lastStatus,     \* history: the last oracle call of rev_get_sol_*
    nCands,         \* history: per sample, size of the candidate list at the end of the search
    searched,       \* history: per sample, the candidate regions handed to the solver
    err,            \* the exception the program ended with
    faults,         \* number of oracle calls that did not answer the exact result
    ucG, ucH, ucOut \* union_constraints checked on its own: arguments and outcome

vars == <<clf, trnX, queries, method, norm, n_searches, phase, ci, regions, region_preds,
          region_res, vacuan_regions, last, X, y, pert_X, sid, ind, k, cands,
          lastStatus, nCands, searched, err, faults, ucG, ucH, ucOut>>

----------------------------------------------------------------------------
(* Bounds of the model *)

MaxCoord == 3       \* thresholds and feature values lie in 0..MaxCoord
MaxBatch == 2       \* perturb is called with 1..MaxBatch samples
MaxFaults == 1      \* at most this many oracle calls misbehave in one run

(* Program constants *)

CONSTRAINTTOL == 1  \* the grid unit
Inf == 99           \* np.inf
RtolInv == 100000   \* 1 / rtol of np.isclose (rtol = 1e-5)
AtolScaled == 200   \* atol of np.isclose (1e-8) in grid units of 5e-6, times RtolInv

----------------------------------------------------------------------------
(* Arithmetic on vectors *)

Abs(a) == IF a < 0 THEN -a ELSE a
Min2(a, b) == IF a <= b THEN a ELSE b
Max2(a, b) == IF a >= b THEN a ELSE b

RECURSIVE SumTo(_, _)
SumTo(v, m) == IF m = 0 THEN 0 ELSE SumTo(v, m - 1) + v[m]
Sum(v) == SumTo(v, Len(v))

Dot(u, v) == Sum([i \in 1..Len(u) |-> u[i] * v[i]])
VSub(u, v) == [i \in 1..Len(u) |-> u[i] - v[i]]
VAdd(u, v) == [i \in 1..Len(u) |-> u[i] + v[i]]
Zeros(n) == [i \in 1..n |-> 0]
Unit(n, i, s) == [j \in 1..n |-> IF j = i THEN s ELSE 0]

RECURSIVE MaxTo(_, _)
MaxTo(v, m) == IF m = 0 THEN 0 ELSE Max2(MaxTo(v, m - 1), Abs(v[m]))

\* np.linalg.norm(c, ord=2) is compared through its square, ord=np.inf as is
NormOf(nm, v) == IF nm = "2" THEN Dot(v, v) ELSE MaxTo(v, Len(v))

\* first index of the largest entry: np.argmax
RECURSIVE ArgMaxTo(_, _)
ArgMaxTo(v, m) ==
    IF m = 1 THEN 1
    ELSE LET b == ArgMaxTo(v, m - 1) IN IF v[m] > v[b] THEN m ELSE b
ArgMax(v) == ArgMaxTo(v, Len(v)) - 1

\* np.isclose(a, b): |a - b| <= atol + rtol * |b|, false when one side is infinite
IsClose(a, b) ==
    IF Abs(a) >= Inf \/ Abs(b) >= Inf THEN a = b
    ELSE RtolInv * Abs(a - b) <= AtolScaled + Abs(b)

----------------------------------------------------------------------------
(* The forest: scikit-learn's tree_ arrays and the prediction of the ensemble *)

IsLeaf(tree, node) == tree.children_left[node] = 0

\* tree_clf.apply(x): the leaf x is routed to; the split test is x[feature] <= threshold
RECURSIVE ApplyFrom(_, _, _)
ApplyFrom(tree, node, x) ==
    IF IsLeaf(tree, node) THEN node
    ELSE IF x[tree.feature[node]] <= tree.threshold[node]
         THEN ApplyFrom(tree, tree.children_left[node], x)
         ELSE ApplyFrom(tree, tree.children_right[node], x)
Apply(tree, x) == ApplyFrom(tree, 1, x)

\* tree_clf.decision_path(x): the nodes from the root to the leaf
RECURSIVE PathFrom(_, _, _)
PathFrom(tree, node, x) ==
    IF IsLeaf(tree, node) THEN <<node>>
    ELSE IF x[tree.feature[node]] <= tree.threshold[node]
         THEN <<node>> \o PathFrom(tree, tree.children_left[node], x)
         ELSE <<node>> \o PathFrom(tree, tree.children_right[node], x)
decision_path(tree, x) == PathFrom(tree, 1, x)

\* the class of a leaf: np.argmax(value[leaf])
LeafClass(tree, node) == ArgMax(tree.value[node])

\* np.bincount(res) over the classes 0..n_classes-1
BinCount(res, n_classes) ==
    [c \in 1..n_classes |-> Cardinality({i \in 1..Len(res) : res[i] = c - 1})]

\* majority vote of a tuple of per-tree classes: np.argmax(np.bincount(res))
Majority(res, n_classes) == ArgMax(BinCount(res, n_classes))

\* clf.predict([x])[0]: the majority vote of the trees, ties to the lowest class
Predict(f, x) ==
    Majority([i \in 1..Len(f.estimators_) |-> LeafClass(f.estimators_[i], Apply(f.estimators_[i], x))],
             f.n_classes_)

----------------------------------------------------------------------------
(* get_tree_constraints: per leaf, the path to it and the rows of its box *)

Parent(tree, node) ==
    CHOOSE p \in 1..Len(tree.feature) :
        ~IsLeaf(tree, p) /\ (tree.children_left[p] = node \/ tree.children_right[p] = node)

RECURSIVE PathTo(_, _)
PathTo(tree, node) ==
    IF node = 1 THEN <<1>> ELSE Append(PathTo(tree, Parent(tree, node)), node)

\* the rows (G, h) of the path: x[f] <= threshold on a left branch, -x[f] <= -threshold on a right one
PathRows(tree, n, path) ==
    [j \in 1..(Len(path) - 1) |->
        IF tree.children_left[path[j]] = path[j + 1]
        THEN [G |-> Unit(n, tree.feature[path[j]], 1), h |-> tree.threshold[path[j]]]
        ELSE [G |-> Unit(n, tree.feature[path[j]], -1), h |-> -tree.threshold[path[j]]]]

RECURSIVE LeavesFrom(_, _)
LeavesFrom(tree, node) ==
    IF node > Len(tree.feature) THEN <<>>
    ELSE (IF IsLeaf(tree, node) THEN <<node>> ELSE <<>>) \o LeavesFrom(tree, node + 1)

get_tree_constraints(tree, n) ==
    LET leaves == LeavesFrom(tree, 1) IN
    [p \in 1..Len(leaves) |->
        LET path == PathTo(tree, leaves[p]) IN
        [path |-> path,
         G |-> [j \in 1..(Len(path) - 1) |-> PathRows(tree, n, path)[j].G],
         h |-> [j \in 1..(Len(path) - 1) |-> PathRows(tree, n, path)[j].h]]]

----------------------------------------------------------------------------
(* union_constraints, constraint_list_to_matrix, tree_instance_constraint *)

AbsSum(row) == Sum([j \in 1..Len(row) |-> Abs(row[j])])

\* faulty variant of RowsAssert: the assertion of line 46 is not made
RowsAssertOff(G) == TRUE

\* line 46: every row has absolute sum 1
RowsAssert(G) == \A i \in 1..Len(G) : AbsSum(G[i]) = 1

\* np.where(Gi == s)[0][0]: the first column holding s, 0 when there is none (IndexError)
FirstWhere(row, s) ==
    IF \E j \in 1..Len(row) : row[j] = s
    THEN CHOOSE j \in 1..Len(row) : row[j] = s /\ \A j2 \in 1..(j - 1) : row[j2] # s
    ELSE 0

\* the loop of lines 52-60 over the rows i..Len(G), r being the bounds so far
RECURSIVE UnionLoop(_, _, _, _)
UnionLoop(G, h, i, r) ==
    IF i > Len(G) THEN [err |-> "none", r |-> r]
    ELSE LET n_dim == Len(G[i])
             s == Sum(G[i])
         IN IF s = 1 \/ s = -1
            THEN LET w == FirstWhere(G[i], s)
                     idx == IF s = 1 THEN w ELSE w + n_dim
                 IN IF w = 0 THEN [err |-> "IndexError", r |-> <<>>]
                    ELSE UnionLoop(G, h, i + 1, [r EXCEPT ![idx] = Min2(r[idx], h[i])])
            ELSE [err |-> "ValueError", r |-> <<>>]

union_constraints(G, h) ==
    IF ~RowsAssert(G) THEN [err |-> "AssertionError", r |-> <<>>]
    ELSE UnionLoop(G, h, 1, [i \in 1..(2 * Len(G[1])) |-> Inf])

\* the dimensions constraint_list_to_matrix turns into an equality row
Pinned(r, i) == IsClose(r[i], -r[i + Len(r) \div 2])

RECURSIVE CLMFrom(_, _)
CLMFrom(r, i) ==
    LET n_dim == Len(r) \div 2 IN
    IF i > n_dim THEN [G |-> <<>>, h |-> <<>>, C |-> <<>>, d |-> <<>>]
    ELSE LET rest == CLMFrom(r, i + 1) IN
         IF Pinned(r, i)
         THEN [rest EXCEPT !.C = <<Unit(n_dim, i, 1)>> \o @, !.d = <<r[i]>> \o @]
         ELSE [rest EXCEPT !.G = <<Unit(n_dim, i, 1), Unit(n_dim, i, -1)>> \o @,
                           !.h = <<r[i], r[i + n_dim]>> \o @]

\* (rG, rh, rC, rd); rC = rd = None is the empty sequence
constraint_list_to_matrix(r) == CLMFrom(r, 1)

\* faulty variant of tree_instance_constraint: the bound of a ">" branch is stored at
\* feature[node] instead of feature[node] + n_dims
RECURSIVE InstanceLoopNoOffset(_, _, _, _, _)
InstanceLoopNoOffset(tree, x, path, j, r) ==
    IF j > Len(path) \/ IsLeaf(tree, path[j]) THEN r
    ELSE LET node == path[j]
             idx == tree.feature[node]
             hi == IF x[tree.feature[node]] <= tree.threshold[node]
                   THEN tree.threshold[node] ELSE -tree.threshold[node]
         IN InstanceLoopNoOffset(tree, x, path, j + 1, [r EXCEPT ![idx] = Min2(r[idx], hi)])

tree_instance_constraint_no_offset(tree, XX) ==
    [s \in 1..Len(XX) |->
        InstanceLoopNoOffset(tree, XX[s], decision_path(tree, XX[s]), 1,
                             [i \in 1..(2 * Len(XX[s])) |-> Inf])]

\* lines 74-90 for one sample: the bounds along its decision path
RECURSIVE InstanceLoop(_, _, _, _, _)
InstanceLoop(tree, x, path, j, r) ==
    IF j > Len(path) \/ IsLeaf(tree, path[j]) THEN r
    ELSE LET node == path[j]
             n_dims == Len(x)
             idx == IF x[tree.feature[node]] <= tree.threshold[node]
                    THEN tree.feature[node] ELSE tree.feature[node] + n_dims
             hi == IF x[tree.feature[node]] <= tree.threshold[node]
                   THEN tree.threshold[node] ELSE -tree.threshold[node]
         IN InstanceLoop(tree, x, path, j + 1, [r EXCEPT ![idx] = Min2(r[idx], hi)])

tree_instance_constraint(tree, XX) ==
    [s \in 1..Len(XX) |->
        InstanceLoop(tree, XX[s], decision_path(tree, XX[s]), 1,
                     [i \in 1..(2 * Len(XX[s])) |-> Inf])]

----------------------------------------------------------------------------
(* The LP/QP oracle (solve_lp, solve_qp).  The variables range over the grid *)
(* points that can be optimal for the programs the attack builds.            *)

VarRange == (0 - CONSTRAINTTOL)..(MaxCoord + 2 * CONSTRAINTTOL)

FeasSet(m, G, h, C, d) ==
    {v \in [1..m -> VarRange] :
        /\ \A i \in 1..Len(G) : Dot(G[i], v) <= h[i]
        /\ \A i \in 1..Len(C) : Dot(C[i], v) = d[i]}

\* the smallest member of a non-empty set of integers
SetMin(S) == CHOOSE a \in S : \A b \in S : a <= b

\* minimise c.v subject to G v <= h, C v = d: the exact answers of the oracle
solve_lp(c, G, h, C, d) ==
    LET F == FeasSet(Len(c), G, h, C, d) IN
    IF F = {} THEN {[status |-> "infeasible", sol |-> <<>>]}
    ELSE LET best == SetMin({Dot(c, w) : w \in F})
             Opt == {u \in F : Dot(c, u) = best}
         IN \* a simplex oracle answers a corner of the optimal face: an optimal point
            \* that does not lie between two neighbouring optimal points
            {[status |-> "optimal", sol |-> v] :
                v \in {u \in Opt : \A dl \in [1..Len(c) -> {-1, 0, 1}] :
                                      dl = Zeros(Len(c)) \/ VAdd(u, dl) \notin Opt
                                                        \/ VSub(u, dl) \notin Opt}}

\* minimise (1/2) z.Q.z + q.z with Q = 2 * eye subject to G z <= h, C z = d
solve_qp(q, G, h, C, d) ==
    LET F == FeasSet(Len(q), G, h, C, d) IN
    IF F = {} THEN {[status |-> "infeasible", sol |-> <<>>]}
    ELSE LET best == SetMin({Dot(w, w) + Dot(q, w) : w \in F}) IN
         {[status |-> "optimal", sol |-> v] : v \in {u \in F : Dot(u, u) + Dot(q, u) = best}}

\* what an oracle call may answer besides the exact result: a numerical near miss,
\* another non-optimal status, or an exception
FaultAnswers ==
    {[status |-> "infeasible_inaccurate", sol |-> <<>>],
     [status |-> "unknown", sol |-> <<>>],
     [status |-> "raise", sol |-> <<>>]}

OracleAnswers(exact) == exact \cup (IF faults < MaxFaults THEN FaultAnswers ELSE {})

IsFault(ans) == ans \in FaultAnswers

----------------------------------------------------------------------------
(* The forests and training sets the model runs on *)

OneHot(c) == [j \in 1..2 |-> IF j = c + 1 THEN 1 ELSE 0]

\* a depth-1 tree: class cl where x[f] <= t, class cr above
Stump(f, t, cl, cr) ==
    [feature |-> <<f, 0, 0>>, threshold |-> <<t, 0, 0>>,
     children_left |-> <<2, 0, 0>>, children_right |-> <<3, 0, 0>>,
     value |-> <<(<<1, 1>>), OneHot(cl), OneHot(cr)>>]

\* a depth-2 tree: class cl where x[f] <= t; above, class c2l where x[f2] <= t2, else c2r
Tree2(f, t, cl, f2, t2, c2l, c2r) ==
    [feature |-> <<f, 0, f2, 0, 0>>, threshold |-> <<t, 0, t2, 0, 0>>,
     children_left |-> <<2, 0, 4, 0, 0>>, children_right |-> <<3, 0, 5, 0, 0>>,
     value |-> <<(<<1, 1>>), OneHot(cl), (<<1, 1>>), OneHot(c2l), OneHot(c2r)>>]

\* three identical stumps over one feature
StumpForest ==
    [n_features |-> 1, n_classes_ |-> 2,
     estimators_ |-> <<Stump(1, 1, 0, 1), Stump(1, 1, 0, 1), Stump(1, 1, 0, 1)>>]

\* a depth-2 tree and a stump over one feature; class 1 only on the thin interval (1, 2]
ThinForest ==
    [n_features |-> 1, n_classes_ |-> 2,
     estimators_ |-> <<Tree2(1, 1, 0, 1, 2, 1, 0), Stump(1, 1, 0, 1)>>]

\* two identical stumps over two features; class 1 where x[1] <= 1
BoxForest ==
    [n_features |-> 2, n_classes_ |-> 2,
     estimators_ |-> <<Stump(1, 1, 1, 0), Stump(1, 1, 1, 0)>>]

\* three stumps over two features, two of them identical; class 1 where x[1] > 1
WideForest ==
    [n_features |-> 2, n_classes_ |-> 2,
     estimators_ |-> <<Stump(1, 1, 0, 1), Stump(1, 1, 0, 1), Stump(2, 2, 1, 0)>>]

\* each forest with a training set, the points perturb may be asked about and the
\* modes it is attacked in (exact mode enumerates every combination of leaves)
Scenarios ==
    {[clf |-> StumpForest, trnX |-> <<(<<0>>), (<<3>>)>>,
      queries |-> {<<0>>, <<1>>}, methods |-> {"all", "rev"}],
     [clf |-> ThinForest, trnX |-> <<(<<0>>), (<<2>>), (<<3>>)>>,
      queries |-> {<<0>>, <<2>>}, methods |-> {"all", "rev"}],
     [clf |-> BoxForest, trnX |-> <<(<<0, 0>>), (<<2, 2>>), (<<3, 3>>)>>,
      queries |-> {<<1, 2>>, <<3, 0>>}, methods |-> {"all", "rev"}],
     [clf |-> WideForest, trnX |-> <<(<<0, 0>>), (<<2, 2>>), (<<3, 3>>)>>,
      queries |-> {<<0, 0>>, <<2, 3>>}, methods |-> {"rev"}]}

Labels == {0, 1}
NSearches == {-1, 0, 1}

----------------------------------------------------------------------------
(* Construction, exact mode: lines 219-264 *)

RECURSIVE Flatten(_)
Flatten(ss) == IF Len(ss) = 0 THEN <<>> ELSE Head(ss) \o Flatten(Tail(ss))

\* itertools.product of a sequence of sequences, in its order
RECURSIVE Product(_)
Product(ss) ==
    IF Len(ss) = 0 THEN <<(<<>>)>>
    ELSE LET rest == Product(Tail(ss))
             first == Head(ss)
         IN Flatten([a \in 1..Len(first) |->
                        [b \in 1..Len(rest) |-> <<first[a]>> \o rest[b]]])

\* product(range(n_classes), repeat=n_estimators)
ClassTuples(f) ==
    Product([i \in 1..Len(f.estimators_) |-> [c \in 1..f.n_classes_ |-> c - 1]])

\* lines 234-241: per tree, the leaf boxes whose class is res[i]
perm_consts(f, res) ==
    [i \in 1..Len(f.estimators_) |->
        LET tree == f.estimators_[i]
            cons == get_tree_constraints(tree, f.n_features)
            Match(c) == LeafClass(tree, c.path[Len(c.path)]) = res[i]
        IN SelectSeq(cons, Match)]

\* every (res, pro) the loops of lines 231 and 243 visit, in order
Combos(f) ==
    LET tuples == ClassTuples(f) IN
    Flatten([t \in 1..Len(tuples) |->
                LET pros == Product(perm_consts(f, tuples[t])) IN
                [p \in 1..Len(pros) |-> [res |-> tuples[t], pro |-> pros[p]]]])

\* the constraint system has a solution
Feasible(m, n) == FeasSet(n, m.G, m.h, m.C, m.d) # {}

\* lines 244-260 for one combination with rows (G, h): the ways it can end.
\* union_constraints is called outside the try; len(G[0]) and solve_lp inside it.
ComboOutcomes(G, h, n) ==
    LET u == union_constraints(G, h) IN
    IF u.err # "none"
    THEN {[kind |-> "abort", err |-> u.err, r |-> <<>>, oracle |-> "notcalled", feasible |-> FALSE]}
    ELSE LET m == constraint_list_to_matrix(u.r) IN
         IF Len(m.G) = 0
         THEN {[kind |-> "discard", err |-> "IndexError", r |-> u.r, oracle |-> "notcalled",
                feasible |-> Feasible(m, n)]}
         ELSE {[kind |-> IF ans.status = "optimal" THEN "keep" ELSE "discard",
                err |-> "none", r |-> u.r, oracle |-> ans.status, feasible |-> Feasible(m, n)] :
                  ans \in OracleAnswers(solve_lp(Zeros(n), m.G, m.h, m.C, m.d))}

NoLast == [res |-> <<>>, kind |-> "none", err |-> "none", r |-> <<>>, oracle |-> "none",
           feasible |-> FALSE]

perturbVars == <<X, y, pert_X, sid, ind, k, cands, lastStatus, nCands, searched>>
unionVars == <<ucG, ucH, ucOut>>
ctorArgs == <<clf, trnX, queries, method, norm, n_searches>>

\* one iteration of the loop of line 243
EnumStep ==
    /\ phase = "init"
    /\ method = "all"
    /\ ci <= Len(Combos(clf))
    /\ LET combo == Combos(clf)[ci]
           G == Flatten([j \in 1..Len(combo.pro) |-> combo.pro[j].G])
           h == Flatten([j \in 1..Len(combo.pro) |-> combo.pro[j].h])
       IN \E out \in ComboOutcomes(G, h, clf.n_features) :
            /\ last' = [res |-> combo.res, kind |-> out.kind, err |-> out.err, r |-> out.r,
                        oracle |-> out.oracle, feasible |-> out.feasible]
            /\ faults' = IF out.oracle \in {a.status : a \in FaultAnswers} THEN faults + 1 ELSE faults
            /\ IF out.kind = "abort"
               THEN /\ phase' = "failed"
                    /\ err' = out.err
                    /\ UNCHANGED <<regions, region_preds, region_res, vacuan_regions, ci>>
               ELSE /\ ci' = ci + 1
                    /\ phase' = IF ci + 1 > Len(Combos(clf)) THEN "built" ELSE "init"
                    /\ err' = err
                    /\ IF out.kind = "keep"
                       THEN /\ region_preds' = Append(region_preds, Majority(combo.res, clf.n_classes_))
                            /\ regions' = Append(regions, out.r)
                            /\ region_res' = Append(region_res, combo)
                            /\ UNCHANGED vacuan_regions
                       ELSE /\ vacuan_regions' = vacuan_regions + 1
                            /\ UNCHANGED <<regions, region_preds, region_res>>
    /\ UNCHANGED <<ctorArgs, perturbVars, unionVars>>

----------------------------------------------------------------------------
(* Construction, approximate mode: lines 266-285 *)

\* np.min over the trees of the per-sample bounds (lines 267-272)
InstanceRegions(f, XX) ==
    [s \in 1..Len(XX) |->
        [i \in 1..(2 * f.n_features) |->
            LET t == [e \in 1..Len(f.estimators_) |->
                         tree_instance_constraint(f.estimators_[e], XX)[s][i]]
            IN CHOOSE v \in {t[e] : e \in 1..Len(t)} : \A e \in 1..Len(t) : v <= t[e]]]

\* the assertion of lines 276-283 for one training point
SampleSatisfies(m, x) ==
    /\ \A i \in 1..Len(m.G) : Dot(m.G[i], x) <= m.h[i] + CONSTRAINTTOL
    /\ \A i \in 1..Len(m.C) : IsClose(Dot(m.C[i], x), m.d[i])

BuildRev ==
    /\ phase = "init"
    /\ method = "rev"
    /\ LET r == InstanceRegions(clf, trnX) IN
        /\ regions' = r
        /\ IF \A i \in 1..Len(trnX) : SampleSatisfies(constraint_list_to_matrix(r[i]), trnX[i])
           THEN phase' = "built" /\ err' = err
           ELSE phase' = "failed" /\ err' = "AssertionError"
    /\ UNCHANGED <<ctorArgs, ci, region_preds, region_res, vacuan_regions, last, faults,
                   perturbVars, unionVars>>

----------------------------------------------------------------------------
(* perturb: lines 289-345, and the solvers rev_get_sol_l2 / rev_get_sol_linf *)

\* faulty variant of TempH: the tolerance is not subtracted
TempHNoTol(h) == h

\* h - CONSTRAINTTOL; an infinite bound stays infinite
TempH(h) == [i \in 1..Len(h) |-> IF h[i] >= Inf THEN Inf ELSE h[i] - CONSTRAINTTOL]

\* ind = np.where(np.logical_not(np.isinf(temph)))[0]
FiniteRows(temph) ==
    LET Fin(i) == temph[i] < Inf IN SelectSeq([i \in 1..Len(temph) |-> i], Fin)

\* lines 101-113: the answers of the QP oracle for one region
QPAnswers(m, target_x) ==
    LET q == [i \in 1..Len(target_x) |-> -2 * target_x[i]]
        temph == TempH(m.h)
        rows == FiniteRows(temph)
        tempG == [i \in 1..Len(rows) |-> m.G[rows[i]]]
        temph2 == [i \in 1..Len(rows) |-> temph[rows[i]]]
    IN solve_qp(q, tempG, temph2, m.C, m.d)

\* lines 140-162: the answers of the LP oracle for one region; the variables are (z, t)
LPAnswers(m, target_x) ==
    LET fet_dim == Len(target_x)
        c == Zeros(fet_dim) \o <<1>>
        G2 == [i \in 1..fet_dim |-> Unit(fet_dim, i, 1) \o <<-1>>]
        G3 == [i \in 1..fet_dim |-> Unit(fet_dim, i, -1) \o <<-1>>]
        G == [i \in 1..Len(m.G) |-> m.G[i] \o <<0>>] \o G2 \o G3
        h == m.h \o target_x \o [i \in 1..fet_dim |-> -target_x[i]]
        temph == TempH(h)
        rows == FiniteRows(temph)
        tempG == [i \in 1..Len(rows) |-> G[rows[i]]]
        temph2 == [i \in 1..Len(rows) |-> temph[rows[i]]]
        C == [i \in 1..Len(m.C) |-> m.C[i] \o <<0>>]
    IN solve_lp(c, tempG, temph2, C, m.d)

\* the point a solution stands for: sol for the QP, sol[:-1] for the LP
RetOf(nm, sol) == IF nm = "2" THEN sol ELSE SubSeq(sol, 1, Len(sol) - 1)

\* faulty variant of AlreadyIncorrect: misclassified samples are attacked like the others
AlreadyIncorrectNever(pred_yi, target_y) == FALSE

\* lines 304 and 321: the sample is already misclassified
AlreadyIncorrect(pred_yi, target_y) == pred_yi # target_y

\* lines 131-132 and 179-180: index of the first candidate of smallest norm
RECURSIVE ArgMinTo(_, _)
ArgMinTo(norms, m) ==
    IF m = 1 THEN 1
    ELSE LET b == ArgMinTo(norms, m - 1) IN IF norms[m] < norms[b] THEN m ELSE b
\* faulty variant of ArgMinNorm: argmax in place of argmin
ArgMaxNorm(nm, candidates) ==
    ArgMaxTo([i \in 1..Len(candidates) |-> NormOf(nm, candidates[i])], Len(candidates))

ArgMinNorm(nm, candidates) ==
    ArgMinTo([i \in 1..Len(candidates) |-> NormOf(nm, candidates[i])], Len(candidates))

\* faulty variant of SolverResult: no candidate is answered with the zero vector
SolverResultZero(nm, candidates) ==
    IF Len(candidates) = 0 THEN [err |-> "none", pert |-> Zeros(clf.n_features)]
    ELSE [err |-> "none", pert |-> candidates[ArgMinNorm(nm, candidates)]]

\* lines 131-132 and 179-180: the candidate of smallest norm; taking the norms of an
\* empty list along axis 1 raises
SolverResult(nm, candidates) ==
    IF Len(candidates) = 0 THEN [err |-> "AxisError", pert |-> <<>>]
    ELSE [err |-> "none", pert |-> candidates[ArgMinNorm(nm, candidates)]]

\* kd_tree.query(target_x, k=len(trnX)): the training indices by increasing distance
KDOrders(target_x) ==
    {p \in [1..Len(trnX) -> 1..Len(trnX)] :
        /\ \A i, j \in 1..Len(trnX) : i # j => p[i] # p[j]
        /\ \A i, j \in 1..Len(trnX) :
             i < j => NormOf("2", VSub(trnX[p[i]], target_x)) <= NormOf("2", VSub(trnX[p[j]], target_x))}

\* ind[:n] for n >= 0
Take(ss, n) == SubSeq(ss, 1, Min2(n, Len(ss)))

\* filter(lambda x: pred_trn_y[x] != target_y, order)
DiffLabelled(order, target_y) ==
    LET Diff(i) == Predict(clf, trnX[i]) # target_y IN SelectSeq(order, Diff)

\* lines 307-308: the exact-mode regions whose label differs from target_y
DiffRegions(target_y) ==
    LET Diff(i) == region_preds[i] # target_y
    IN SelectSeq([i \in 1..Len(regions) |-> i], Diff)

Batches ==
    UNION {[1..b -> queries \X Labels] : b \in 1..MaxBatch}

\* perturb is entered: lines 289-300, 319
StartPerturb ==
    /\ phase = "built"
    /\ \E batch \in Batches :
         /\ X' = [i \in 1..Len(batch) |-> batch[i][1]]
         /\ y' = [i \in 1..Len(batch) |-> batch[i][2]]
         /\ pert_X' = IF method = "all" THEN <<>>
                      ELSE [i \in 1..Len(batch) |-> Zeros(clf.n_features)]
         /\ nCands' = [i \in 1..Len(batch) |-> -1]
         /\ searched' = [i \in 1..Len(batch) |-> <<>>]
    /\ phase' = "perturb"
    /\ sid' = 1
    /\ k' = 0
    /\ UNCHANGED <<ctorArgs, ci, regions, region_preds, region_res, vacuan_regions, last,
                   ind, cands, lastStatus, err, faults, unionVars>>

\* a sample is taken up: lines 304-308 (_helper) or 321-333
BeginSample ==
    /\ phase = "perturb"
    /\ k = 0
    /\ sid <= Len(X)
    /\ IF AlreadyIncorrect(Predict(clf, X[sid]), y[sid])
       THEN /\ pert_X' = IF method = "all" THEN Append(pert_X, Zeros(clf.n_features)) ELSE pert_X
            /\ sid' = sid + 1
            /\ UNCHANGED <<ind, k, cands, searched>>
       ELSE /\ \/ /\ method = "all"
                  /\ ind' = DiffRegions(y[sid])
               \/ /\ method = "rev"
                  /\ n_searches # -1
                  /\ \E order \in KDOrders(X[sid]) :
                       ind' = Take(DiffLabelled(order, y[sid]), n_searches)
               \/ /\ method = "rev"
                  /\ n_searches = -1
                  /\ ind' = DiffLabelled([i \in 1..Len(trnX) |-> i], y[sid])
            /\ searched' = [searched EXCEPT ![sid] = ind']
            /\ k' = 1
            /\ cands' = <<>>
            /\ UNCHANGED <<pert_X, sid>>
    /\ UNCHANGED <<ctorArgs, phase, ci, regions, region_preds, region_res, vacuan_regions, last,
                   X, y, lastStatus, nCands, err, faults, unionVars>>

\* one iteration of the loop of rev_get_sol_l2 (98-129) / rev_get_sol_linf (139-177)
SolveRegion ==
    /\ phase = "perturb"
    /\ k >= 1
    /\ k <= Len(ind)
    /\ LET target_x == X[sid]
           target_y == y[sid]
           m == constraint_list_to_matrix(regions[ind[k]])
           exact == IF norm = "2" THEN QPAnswers(m, target_x) ELSE LPAnswers(m, target_x)
           offset == VSub(trnX[ind[k]], target_x)
       IN \E ans \in OracleAnswers(exact) :
            /\ faults' = IF IsFault(ans) THEN faults + 1 ELSE faults
            /\ lastStatus' = [status |-> ans.status, region |-> ind[k], sample |-> sid]
            /\ IF ans.status = "raise"
               THEN /\ phase' = "failed" /\ err' = "OracleError"
                    /\ UNCHANGED <<k, cands>>
               ELSE IF ans.status = "optimal"
               THEN LET ret == RetOf(norm, ans.sol) IN
                    /\ cands' = IF Predict(clf, ret) # target_y
                                THEN Append(cands, VSub(ret, target_x))
                                ELSE IF method = "rev" THEN Append(cands, offset) ELSE cands
                    /\ k' = k + 1
                    /\ UNCHANGED <<phase, err>>
               ELSE IF ans.status = "infeasible_inaccurate"
               THEN IF method = "rev"
                    THEN /\ cands' = Append(cands, offset)
                         /\ k' = k + 1
                         /\ UNCHANGED <<phase, err>>
                    ELSE \* trnX is None: trnX[i] raises
                         /\ phase' = "failed" /\ err' = "TypeError"
                         /\ UNCHANGED <<k, cands>>
               ELSE /\ k' = k + 1
                    /\ UNCHANGED <<phase, err, cands>>
    /\ UNCHANGED <<ctorArgs, ci, regions, region_preds, region_res, vacuan_regions, last,
                   X, y, pert_X, sid, ind, nCands, searched, unionVars>>

\* the end of the solver and what perturb does with its result:
\* lines 131-132 / 179-180, then 309-310 (exact) or 334-340 (approximate)
Select ==
    /\ phase = "perturb"
    /\ k >= 1
    /\ k > Len(ind)
    /\ nCands' = [nCands EXCEPT ![sid] = Len(cands)]
    /\ LET res == SolverResult(norm, cands)
           pert_x == res.pert
       IN IF res.err # "none"
          THEN /\ phase' = "failed" /\ err' = res.err
               /\ UNCHANGED <<pert_X, sid, k>>
          ELSE IF method = "all"
          THEN /\ pert_X' = Append(pert_X, pert_x)
               /\ sid' = sid + 1 /\ k' = 0
               /\ UNCHANGED <<phase, err>>
          ELSE IF NormOf("2", pert_x) # 0
          THEN IF Predict(clf, VAdd(X[sid], pert_x)) # y[sid]
               THEN /\ pert_X' = [pert_X EXCEPT ![sid] = pert_x]
                    /\ sid' = sid + 1 /\ k' = 0
                    /\ UNCHANGED <<phase, err>>
               ELSE /\ phase' = "failed" /\ err' = "AssertionError"
                    /\ UNCHANGED <<pert_X, sid, k>>
          ELSE /\ phase' = "failed" /\ err' = "ValueError"
               /\ UNCHANGED <<pert_X, sid, k>>
    /\ UNCHANGED <<ctorArgs, ci, regions, region_preds, region_res, vacuan_regions, last,
                   X, y, ind, cands, lastStatus, searched, faults, unionVars>>

\* every sample is done: line 316 (exact mode), then 344-345
Finish ==
    /\ phase = "perturb"
    /\ k = 0
    /\ sid > Len(X)
    /\ IF method = "all" /\ ~(\A i \in 1..Len(X) : Predict(clf, VAdd(X[i], pert_X[i])) # y[i])
       THEN phase' = "failed" /\ err' = "AssertionError"
       ELSE phase' = "done" /\ err' = err
    /\ UNCHANGED <<ctorArgs, ci, regions, region_preds, region_res, vacuan_regions, last,
                   X, y, pert_X, sid, ind, k, cands, lastStatus, nCands, searched, faults,
                   unionVars>>

----------------------------------------------------------------------------
(* The program: construction, then one call of perturb *)

NoStatus == [status |-> "none", region |-> 0, sample |-> 0]
NoUnion == [err |-> "none", r |-> <<>>, kind |-> "none"]

Init ==
    /\ \E sc \in Scenarios :
         clf = sc.clf /\ trnX = sc.trnX /\ queries = sc.queries /\ method \in sc.methods
    /\ norm \in {"2", "inf"}
    /\ n_searches \in (IF method = "all" THEN {-1} ELSE NSearches)
    /\ phase = "init"
    /\ ci = 1
    /\ regions = <<>> /\ region_preds = <<>> /\ region_res = <<>>
    /\ vacuan_regions = 0
    /\ last = NoLast
    /\ X = <<>> /\ y = <<>> /\ pert_X = <<>>
    /\ sid = 0 /\ ind = <<>> /\ k = 0 /\ cands = <<>>
    /\ lastStatus = NoStatus
    /\ nCands = <<>> /\ searched = <<>>
    /\ err = "none"
    /\ faults = 0
    /\ ucG = <<>> /\ ucH = <<>> /\ ucOut = NoUnion

Next == EnumStep \/ BuildRev \/ StartPerturb \/ BeginSample \/ SolveRegion \/ Select \/ Finish

Spec == Init /\ [][Next]_vars

----------------------------------------------------------------------------
(* union_constraints on its own: any rows, also rows no tree produces *)

MaxRows == 2        \* union_constraints is given 1..MaxRows rows

\* the rows tried: the six axis-aligned rows over three features and rows that are not
UnionRows ==
    {Unit(3, i, s) : i \in 1..3, s \in {1, -1}}
    \cup {<<1, 1, 0>>, <<1, 1, -1>>, <<1, -1, 0>>, <<0, 0, 0>>, <<0, -1, -1>>, <<2, 0, 0>>,
          <<2, -1, 0>>}

InitUnion ==
    /\ \E rows \in 1..MaxRows :
         /\ ucG \in [1..rows -> UnionRows]
         /\ ucH \in [1..rows -> {1, 2}]
    /\ ucOut = NoUnion
    /\ phase = "union"
    /\ clf = StumpForest /\ trnX = <<>> /\ queries = {} /\ method = "all"
    /\ norm = "2" /\ n_searches = -1
    /\ ci = 1
    /\ regions = <<>> /\ region_preds = <<>> /\ region_res = <<>>
    /\ vacuan_regions = 0
    /\ last = NoLast
    /\ X = <<>> /\ y = <<>> /\ pert_X = <<>>
    /\ sid = 0 /\ ind = <<>> /\ k = 0 /\ cands = <<>>
    /\ lastStatus = NoStatus
    /\ nCands = <<>> /\ searched = <<>>
    /\ err = "none"
    /\ faults = 0

\* r = union_constraints(G, h)
UnionCall ==
    /\ phase = "union"
    /\ LET u == union_constraints(ucG, ucH) IN
         ucOut' = [err |-> u.err, r |-> u.r, kind |-> "none"]
    /\ phase' = "combo"
    /\ UNCHANGED <<ctorArgs, ci, regions, region_preds, region_res, vacuan_regions, last,
                   perturbVars, err, faults, ucG, ucH>>

\* the body of the loop of line 243 on these rows
ComboCall ==
    /\ phase = "combo"
    /\ \E out \in ComboOutcomes(ucG, ucH, 3) :
         /\ ucOut' = [ucOut EXCEPT !.kind = out.kind]
         /\ faults' = IF out.oracle \in {a.status : a \in FaultAnswers} THEN faults + 1 ELSE faults
         /\ IF out.kind = "abort"
            THEN phase' = "failed" /\ err' = out.err
            ELSE phase' = "built" /\ err' = err
    /\ UNCHANGED <<ctorArgs, ci, regions, region_preds, region_res, vacuan_regions, last,
                   perturbVars, ucG, ucH>>

NextUnion == UnionCall \/ ComboCall

SpecUnion == InitUnion /\ [][NextUnion]_vars

----------------------------------------------------------------------------
(* Properties *)

\* sample i has been dealt with by perturb
Finished(i) == i < sid \/ phase = "done"

\* sample i was correctly classified, so perturb attacks it
Correct(i) == y[i] = Predict(clf, X[i])

\* C1: when perturb returns, every correctly classified sample i has a perturbation
\* that changes the forest's prediction on X[i], every misclassified sample i has the
\* zero vector, and pert_X[i] is the perturbation of X[i].
C1_PerturbPostcondition ==
    phase = "done" =>
        /\ Len(pert_X) = Len(X)
        /\ \A i \in 1..Len(X) :
             IF Correct(i)
             THEN Predict(clf, VAdd(X[i], pert_X[i])) # y[i]
             ELSE pert_X[i] = Zeros(clf.n_features)

C1_Witness ==
    /\ phase = "done"
    /\ Len(X) = 2
    /\ Correct(1) /\ pert_X[1] # Zeros(clf.n_features)
    /\ ~Correct(2) /\ pert_X[2] = Zeros(clf.n_features)

\* the last sample perturb dealt with was attacked and the solver returned for it;
\* cands still holds that search's candidates
JustSolved == phase \in {"perturb", "done"} /\ k = 0 /\ sid > 1 /\ nCands[sid - 1] > 0

\* C2: the vector the solver returns is one of the candidates, no candidate has a
\* strictly smaller norm in the selected norm, and every candidate changes the label.
C2_MinimumNormCandidate ==
    JustSolved =>
        LET s == sid - 1 IN
        /\ \E j \in 1..Len(cands) : cands[j] = pert_X[s]
        /\ \A j \in 1..Len(cands) :
             /\ NormOf(norm, pert_X[s]) <= NormOf(norm, cands[j])
             /\ Predict(clf, VAdd(X[s], cands[j])) # y[s]

C2_Witness ==
    /\ JustSolved
    /\ \E i, j \in 1..Len(cands) :
         /\ i < j
         /\ NormOf(norm, cands[j]) < NormOf(norm, cands[i])
         /\ pert_X[sid - 1] = cands[j]

\* C3: a search that ends with no candidate at all ends perturb in a failure at that
\* sample: perturb neither goes on to the next sample nor returns.
C3_EmptySearchFails ==
    \A s \in 1..Len(nCands) :
        nCands[s] = 0 =>
            /\ phase = "failed"
            /\ sid = s

\* regions were searched, every one was skipped or dropped
C3_Witness ==
    /\ phase = "failed"
    /\ sid \in 1..Len(X)
    /\ Correct(sid)
    /\ nCands[sid] = 0
    /\ Len(searched[sid]) > 0
    /\ faults = 0

\* the scenario of C4: the three identical stumps, norm infinity, the point [0] with label 0
StumpThreshold == StumpForest.estimators_[1].threshold[1]
IsStumpQuery(i) == clf = StumpForest /\ norm = "inf" /\ X[i] = <<0>> /\ y[i] = 0

\* C4: with an oracle that answers exactly, the perturbation of the point [0] is
\* threshold + tolerance in the positive direction and the perturbed point is of
\* class 1; in exact mode perturb does not fail at that point.
C4_StumpScenario ==
    \A i \in 1..Len(X) :
        (IsStumpQuery(i) /\ faults = 0) =>
            /\ Finished(i) =>
                 /\ pert_X[i] = <<StumpThreshold + CONSTRAINTTOL>>
                 /\ Predict(clf, VAdd(X[i], pert_X[i])) = 1
            /\ method = "all" => ~(phase = "failed" /\ sid = i)

C4_Witness ==
    /\ phase = "done"
    /\ method = "all"
    /\ faults = 0
    /\ IsStumpQuery(1)
    /\ pert_X[1] = <<StumpThreshold + CONSTRAINTTOL>>

\* C5 (as claimed): after the oracle reports infeasible_inaccurate for a region, the
\* search has not failed and the region's candidate is the training-point offset.
C5_InaccurateFallsBack ==
    (lastStatus.status = "infeasible_inaccurate" /\ lastStatus.sample = sid /\ k >= 1) =>
        /\ phase # "failed"
        /\ Len(cands) > 0
        /\ cands[Len(cands)] = VSub(trnX[lastStatus.region], X[sid])

\* the same in approximate mode only
C5_RevOnly == method = "rev" => C5_InaccurateFallsBack

\* C6 (as claimed): with n_searches = 0 a sample that is attacked is searched over all
\* differently-labelled training regions.
C6_ZeroSearchesHandled ==
    (method = "rev" /\ n_searches = 0 /\ phase \in {"perturb", "failed"} /\ k >= 1) =>
        {searched[sid][j] : j \in 1..Len(searched[sid])}
            = {i \in 1..Len(trnX) : Predict(clf, trnX[i]) # y[sid]}

\* a row with exactly one nonzero entry, equal to +1 or -1
AxisAligned(row) ==
    \E j \in 1..Len(row) : Abs(row[j]) = 1 /\ \A j2 \in 1..Len(row) : j2 # j => row[j2] = 0

Malformed(G) == \E i \in 1..Len(G) : ~AxisAligned(G[i])

\* C7: union_constraints on rows that are not all axis-aligned ends in an error and
\* returns no bounds; in the loop of construction the error is not caught and
\* construction ends with it.
C7_MalformedRowRejected ==
    (phase # "union" /\ Malformed(ucG)) =>
        /\ ucOut.err # "none"
        /\ ucOut.r = <<>>
        /\ phase # "combo" => (phase = "failed" /\ ucOut.kind = "abort" /\ err = ucOut.err)

\* a row that is not axis-aligned though its entries add up to 1 went through
\* union_constraints, next to an axis-aligned one
C7_Witness ==
    /\ phase = "failed"
    /\ ucOut.kind = "abort"
    /\ \E i \in 1..Len(ucG) : ucG[i] = <<1, 1, -1>>
    /\ \E i \in 1..Len(ucG) : AxisAligned(ucG[i])

\* z satisfies the constraint system with every inequality strict
StrictlyInside(m, z) ==
    /\ \A i \in 1..Len(m.G) : Dot(m.G[i], z) < m.h[i]
    /\ \A i \in 1..Len(m.C) : Dot(m.C[i], z) = m.d[i]

\* C8 (as claimed): every point strictly inside a retained region is routed by every
\* tree to a leaf of the class the region's tuple names for that tree.
C8_RegionMatchesTuple ==
    \A j \in 1..Len(region_res) :
        \A z \in [1..clf.n_features -> VarRange] :
            StrictlyInside(constraint_list_to_matrix(regions[j]), z) =>
                \A i \in 1..Len(clf.estimators_) :
                    LeafClass(clf.estimators_[i], Apply(clf.estimators_[i], z))
                        = region_res[j].res[i]

\* C9 (as claimed): a combination whose constraint system is feasible, and for which
\* the oracle did not fail, is retained.
C9_FeasibleRetained ==
    (last.kind # "none" /\ last.feasible /\ last.oracle \notin {a.status : a \in FaultAnswers}) =>
        last.kind = "keep"

\* x lies in the box r as constraint_list_to_matrix reads it: on a pinned dimension it
\* is close to the bound, elsewhere it is within tolerance of both bounds
InBox(r, x) ==
    \A f \in 1..Len(x) :
        IF IsClose(r[f], -r[f + Len(x)])
        THEN IsClose(x[f], r[f])
        ELSE x[f] <= r[f] + CONSTRAINTTOL /\ -x[f] <= r[f + Len(x)] + CONSTRAINTTOL

\* C10: approximate-mode construction never fails, and the region of every training
\* sample holds the sample.
C10_SampleInOwnRegion ==
    (method = "rev" /\ phase # "init") =>
        /\ ~(phase = "failed" /\ sid = 0)
        /\ Len(regions) = Len(trnX)
        /\ \A i \in 1..Len(trnX) : InBox(regions[i], trnX[i])

\* a sample whose region is bounded on both sides of a feature
C10_Witness ==
    /\ method = "rev"
    /\ phase = "built"
    /\ \E i \in 1..Len(trnX) : \E f \in 1..clf.n_features :
         regions[i][f] < Inf /\ regions[i][f + clf.n_features] < Inf

====
